---- MODULE Spec2Model ----
(***************************************************************************)
(* Model of the "doctor" diagnostic pipeline of gql.tada's cli-utils,      *)
(* packages/cli-utils/src/commands/doctor/runner.ts: the async generator   *)
(* run() and the version comparator semiverComply().                       *)
(*                                                                         *)
(* Strings are sequences of one-character strings.  The generator is a     *)
(* state machine whose control points (pc) are the suspension points of    *)
(* run(): every yield, every await, every throw.                           *)
(***************************************************************************)
EXTENDS Integers, Sequences, FiniteSets, TLC

VARIABLES
    pc,                   \* control point of run(): "L<line>", "done", "error"
    events,               \* the values yielded so far, in order
    calls,                \* external operations invoked so far, in order
    lookups,              \* package names searched with deps.find, in order
    error,                \* the value thrown out of run(), or NoError
    CI,                   \* process.env.CI is set
    timers,               \* number of setTimeout timers armed by delay()
    packageJsonContents,  \* result of JSON.parse of the manifest
    deps,                 \* merged dependencies
    configResult,         \* result of loadConfig()
    pluginConfig,         \* result of parseConfig()
    hasSchema,            \* !!(await loader.loadIntrospection())
    loaderOrigin,         \* origin passed to load()
    thrown,               \* the error last thrown by a collaborator
    cVersion,             \* semiverComply: argument version
    cCompare,             \* semiverComply: argument compare
    cResult               \* semiverComply: returned value ("unset" before the call)

vars == <<pc, events, calls, lookups, error, CI, timers, packageJsonContents,
          deps, configResult, pluginConfig, hasSchema, loaderOrigin, thrown,
          cVersion, cCompare, cResult>>

runVars == <<pc, events, calls, lookups, error, CI, timers, packageJsonContents,
             deps, configResult, pluginConfig, hasSchema, loaderOrigin, thrown>>

complyVars == <<cVersion, cCompare, cResult>>

-----------------------------------------------------------------------------
(* Bounds *)

\* longest version string enumerated for semiverComply
MaxLen == 6

-----------------------------------------------------------------------------
(* Strings *)

DigitChars == <<"0", "1", "2", "3", "4", "5", "6", "7", "8", "9">>

IsDigit(c) == \E n \in 1..10 : DigitChars[n] = c

DigitValue(c) == (CHOOSE n \in 1..10 : DigitChars[n] = c) - 1

\* characters version strings are drawn from: digits, the dot, a range prefix
Chars == {"0", "1", "4", ".", "^"}

RECURSIVE StringsOfLen(_)
StringsOfLen(n) ==
    IF n = 0 THEN {<<>>}
    ELSE {Append(s, c) : s \in StringsOfLen(n - 1), c \in Chars}

Strings == UNION {StringsOfLen(n) : n \in 0..MaxLen}

-----------------------------------------------------------------------------
(* semiver(a, b) of the npm package "semiver", as used on line 25 *)

\* String.prototype.split('.')
RECURSIVE Split(_)
Split(s) ==
    IF \A i \in 1..Len(s) : s[i] # "."
    THEN <<s>>
    ELSE LET d == CHOOSE i \in 1..Len(s) :
                      s[i] = "." /\ \A j \in 1..(i - 1) : s[j] # "."
         IN  <<SubSeq(s, 1, d - 1)>> \o Split(SubSeq(s, d + 1, Len(s)))

\* parts.slice(2).join('.')
RECURSIVE JoinFrom(_, _)
JoinFrom(parts, k) ==
    IF k > Len(parts) THEN <<>>
    ELSE IF k = Len(parts) THEN parts[k]
    ELSE parts[k] \o <<".">> \o JoinFrom(parts, k + 1)

\* /[.-]/.test(s)
HasDotOrDash(s) == \E i \in 1..Len(s) : s[i] \in {".", "-"}

RECURSIVE StripZeros(_)
StripZeros(s) ==
    IF Len(s) > 1 /\ s[1] = "0" THEN StripZeros(Tail(s)) ELSE s

RECURSIVE LexCompare(_, _)
LexCompare(a, b) ==
    IF a = <<>> /\ b = <<>> THEN 0
    ELSE IF a = <<>> THEN -1
    ELSE IF b = <<>> THEN 1
    ELSE IF DigitValue(a[1]) < DigitValue(b[1]) THEN -1
    ELSE IF DigitValue(a[1]) > DigitValue(b[1]) THEN 1
    ELSE LexCompare(Tail(a), Tail(b))

\* the same comparison without numeric collation: plain string order
CollatorCompare_Lexical(a, b) == LexCompare(a, b)

\* new Intl.Collator(0, { numeric: 1 }).compare on runs of digits:
\* leading zeros are ignored, a longer run is the larger number
CollatorCompare(a, b) ==
    LET x == StripZeros(a)
        y == StripZeros(b)
    IN  IF Len(x) < Len(y) THEN -1
        ELSE IF Len(x) > Len(y) THEN 1
        ELSE LexCompare(x, y)

semiver(a, b) ==
    LET pa == Split(a)
        pb == Split(b)
        c0 == CollatorCompare(pa[1], pb[1])
        c1 == CollatorCompare(pa[2], pb[2])
        a2 == JoinFrom(pa, 3)
        b2 == JoinFrom(pb, 3)
    IN  IF c0 # 0 THEN c0
        ELSE IF c1 # 0 THEN c1
        ELSE IF HasDotOrDash(a2) = HasDotOrDash(b2) THEN CollatorCompare(a2, b2)
        ELSE IF HasDotOrDash(a2) THEN -1 ELSE 1

-----------------------------------------------------------------------------
(* semiverComply *)

\* length of the run of digits matched greedily by \d+ at position i
RECURSIVE DigitRun(_, _)
DigitRun(s, i) ==
    IF i > Len(s) \/ ~IsDigit(s[i]) THEN 0 ELSE 1 + DigitRun(s, i + 1)

NoMatch == <<>>

\* the text matched by \d+\.\d+\.\d+ anchored at position i, or NoMatch
MatchAt(s, i) ==
    LET k1 == DigitRun(s, i)
        d1 == i + k1
        k2 == DigitRun(s, d1 + 1)
        d2 == d1 + 1 + k2
        k3 == DigitRun(s, d2 + 1)
    IN  IF /\ k1 > 0 /\ d1 <= Len(s) /\ s[d1] = "."
           /\ k2 > 0 /\ d2 <= Len(s) /\ s[d2] = "."
           /\ k3 > 0
        THEN SubSeq(s, i, d2 + k3)
        ELSE NoMatch

\* version.match(/\d+\.\d+\.\d+/): the leftmost match, searched from position i
RECURSIVE MatchFrom(_, _)
MatchFrom(s, i) ==
    IF i > Len(s) THEN NoMatch
    ELSE IF MatchAt(s, i) # NoMatch THEN MatchAt(s, i)
    ELSE MatchFrom(s, i + 1)

\* a comparator with an exclusive lower bound
semiverComply_Strict(version, compare) ==
    \E match \in {MatchFrom(version, 1)} :
        IF match # NoMatch THEN semiver(match, compare) > 0 ELSE FALSE

\* const match = version.match(...): the match is computed once and named
semiverComply(version, compare) ==
    \E match \in {MatchFrom(version, 1)} :
        IF match # NoMatch THEN semiver(match, compare) >= 0 ELSE FALSE

\* MINIMUM_VERSIONS
MINIMUM_VERSIONS ==
    [typescript |-> <<"4", ".", "1", ".", "0">>,
     tada       |-> <<"1", ".", "0", ".", "0">>,
     lsp        |-> <<"1", ".", "0", ".", "0">>]

-----------------------------------------------------------------------------
(* Events yielded by run(): the logger's ComposeInput values *)

\* const enum Messages: the label of each check, numbered in pipeline order
CHECK_TS_VERSION == 1
CHECK_DEPENDENCIES == 2
CHECK_TSCONFIG == 3
CHECK_SCHEMA == 4

Checks == {CHECK_TS_VERSION, CHECK_DEPENDENCIES, CHECK_TSCONFIG, CHECK_SCHEMA}

title == [type |-> "Title", check |-> 0, final |-> FALSE]

runningTask(label) == [type |-> "Running", check |-> label, final |-> FALSE]

completedTask(label, isLast) == [type |-> "Completed", check |-> label, final |-> isLast]

failedTask(label) == [type |-> "Failed", check |-> label, final |-> FALSE]

success == [type |-> "Success", check |-> 0, final |-> FALSE]

-----------------------------------------------------------------------------
(* Errors *)

NoCause == "none"

NoError == [kind |-> "none", message |-> "", cause |-> NoCause]

\* opaque errors a collaborator may throw
Errors == {"E1", "E2"}

\* logger.errorMessage(message): a user-facing error, no cause
errorMessage(message) == [kind |-> "UserError", message |-> message, cause |-> NoCause]

\* logger.externalError(message, error): wraps the error of a collaborator
externalError(message, cause) == [kind |-> "ExternalError", message |-> message, cause |-> cause]

\* an error thrown by the JavaScript runtime itself (property of null, not a function)
TypeError(message) == [kind |-> "TypeError", message |-> message, cause |-> NoCause]

\* an error of a collaborator that leaves run() unwrapped
rawError(e) == [kind |-> "CollaboratorError", message |-> e, cause |-> NoCause]

-----------------------------------------------------------------------------
(* The manifest *)

Packages == {"typescript", "@0no-co/graphqlsp", "gql.tada"}

Absent == [t |-> "absent", s |-> <<>>]

\* a JSON value that is not a string (number, null, object)
NonString == [t |-> "nonstring", s |-> <<>>]

Str(s) == [t |-> "string", s |-> s]

\* declared versions a manifest entry is drawn from
EntryValues ==
    {Absent, NonString,
     Str(<<"^", "4", ".", "1", ".", "0">>),
     Str(<<"0", ".", "4", ".", "1">>)}

NoDeps == [p \in Packages |-> Absent]

Unset == [kind |-> "unset", dependencies |-> NoDeps, devDependencies |-> NoDeps]

\* what reading and parsing <cwd>/package.json can give:
\*   "unreadable"  fs.readFile rejects
\*   "unparseable" JSON.parse throws
\*   "null"        the file holds the JSON value null
\*   "object"      any other JSON value; missing mappings have no entries
Manifests ==
    {[kind |-> k, dependencies |-> NoDeps, devDependencies |-> NoDeps] :
        k \in {"unreadable", "unparseable", "null"}}
    \cup
    {[kind |-> "object", dependencies |-> d, devDependencies |-> v] :
        d \in [Packages -> EntryValues], v \in [Packages -> EntryValues]}

\* the merge with the regular dependencies winning on collision
MergeDeps_RegularWins(contents) ==
    [p \in Packages |->
        IF contents.dependencies[p] # Absent
        THEN contents.dependencies[p]
        ELSE contents.devDependencies[p]]

\* { ...packageJsonContents.dependencies, ...packageJsonContents.devDependencies }
MergeDeps(contents) ==
    [p \in Packages |->
        IF contents.devDependencies[p] # Absent
        THEN contents.devDependencies[p]
        ELSE contents.dependencies[p]]

-----------------------------------------------------------------------------
(* Collaborators of @gql.tada/internal *)

\* raw plugin configurations loadConfig() can return
RawConfigs ==
    {[valid |-> FALSE, schema |-> ""],
     [valid |-> TRUE, schema |-> ""],
     [valid |-> TRUE, schema |-> "schema.graphql"]}

NoConfig == [loaded |-> FALSE, pluginConfig |-> [valid |-> FALSE, schema |-> ""]]

NoPluginConfig == [parsed |-> FALSE, schema |-> ""]

-----------------------------------------------------------------------------
(* Initial state: run() has been called, nothing has been requested yet *)

Init ==
    /\ pc = "L44"
    /\ events = <<>>
    /\ calls = <<>>
    /\ lookups = <<>>
    /\ error = NoError
    /\ CI \in BOOLEAN
    /\ timers = 0
    /\ packageJsonContents = Unset
    /\ deps = NoDeps
    /\ configResult = NoConfig
    /\ pluginConfig = NoPluginConfig
    /\ hasSchema = FALSE
    /\ loaderOrigin = ""
    /\ thrown = NoCause
    /\ cVersion = <<>>
    /\ cCompare = <<>>
    /\ cResult = "unset"

dataVars == <<packageJsonContents, deps, configResult, pluginConfig, hasSchema,
              loaderOrigin, thrown>>

\* yield ev
Yield(from, ev, to) ==
    /\ pc = from
    /\ events' = Append(events, ev)
    /\ pc' = to
    /\ UNCHANGED <<calls, lookups, error, CI, timers, dataVars, complyVars>>

\* throw err: the generator ends abnormally
Throw(from, err) ==
    /\ pc = from
    /\ error' = err
    /\ pc' = "error"
    /\ UNCHANGED <<events, calls, lookups, CI, timers, dataVars, complyVars>>

\* a timer whose promise is never resolved
delay_NeverResolves(from, to) ==
    /\ pc = from
    /\ timers' = IF CI THEN timers ELSE timers + 1
    /\ pc' = IF CI THEN to ELSE "waiting"
    /\ UNCHANGED <<events, calls, lookups, error, CI, dataVars, complyVars>>

\* a delay that fails when the CI flag is set
delay_FailsUnderCI(from, to) ==
    /\ pc = from
    /\ timers' = IF CI THEN timers ELSE timers + 1
    /\ pc' = IF CI THEN "error" ELSE to
    /\ error' = IF CI THEN TypeError("delay") ELSE error
    /\ UNCHANGED <<events, calls, lookups, CI, dataVars, complyVars>>

\* await delay(): resolved at once under CI, after a 700 ms timer otherwise
delay(from, to) ==
    /\ pc = from
    /\ timers' = IF CI THEN timers ELSE timers + 1
    /\ pc' = to
    /\ UNCHANGED <<events, calls, lookups, error, CI, dataVars, complyVars>>

-----------------------------------------------------------------------------
(* Check 1: TypeScript version *)

YieldTitle == Yield("L44", title, "L45")

RunningTsVersion == Yield("L45", runningTask(CHECK_TS_VERSION), "L46")

DelayTsVersion == delay("L46", "L58")

\* JSON.parse(await fs.readFile(file, 'utf-8')) inside try/catch
ReadManifest ==
    /\ pc = "L58"
    /\ calls' = Append(calls, "readFile")
    /\ \E m \in Manifests :
          IF m.kind \in {"unreadable", "unparseable"}
          THEN /\ pc' = "L60"
               /\ UNCHANGED packageJsonContents
          ELSE /\ pc' = "L67"
               /\ packageJsonContents' = m
    /\ UNCHANGED <<events, lookups, error, CI, timers, deps, configResult,
                   pluginConfig, hasSchema, loaderOrigin, thrown, complyVars>>

FailedManifest == Yield("L60", failedTask(CHECK_TS_VERSION), "L61")

ThrowManifest == Throw("L61", errorMessage("package.json not found"))

\* const deps = Object.entries({...dependencies, ...devDependencies});
\* reading a property of null throws
BuildDeps ==
    /\ pc = "L67"
    /\ IF packageJsonContents.kind = "null"
       THEN /\ pc' = "error"
            /\ error' = TypeError("cannot read properties of null")
            /\ UNCHANGED deps
       ELSE /\ pc' = "L72"
            /\ deps' = MergeDeps(packageJsonContents)
            /\ UNCHANGED error
    /\ UNCHANGED <<events, calls, lookups, CI, timers, packageJsonContents,
                   configResult, pluginConfig, hasSchema, loaderOrigin, thrown,
                   complyVars>>

\* const v = deps.find((x) => x[0] === name);
\* if (!v) ... else if (!semiverComply(v[1], minimum)) ...
CheckPackage(from, name, minimum, toMissing, toOutdated, toOk) ==
    /\ pc = from
    /\ lookups' = Append(lookups, name)
    /\ LET found == deps[name]
       IN  IF found = Absent
           THEN pc' = toMissing /\ UNCHANGED error
           ELSE IF found.t # "string"
           THEN pc' = "error" /\ error' = TypeError("version.match is not a function")
           ELSE IF ~semiverComply(found.s, minimum)
           THEN pc' = toOutdated /\ UNCHANGED error
           ELSE pc' = toOk /\ UNCHANGED error
    /\ UNCHANGED <<events, calls, CI, timers, dataVars, complyVars>>

\* the version of typescript is looked up but not compared
CheckTypeScript_NoVersionCheck ==
    CheckPackage("L72", "typescript", MINIMUM_VERSIONS.typescript, "L74", "L90", "L90")

CheckTypeScript ==
    CheckPackage("L72", "typescript", MINIMUM_VERSIONS.typescript, "L74", "L81", "L90")

FailedTsMissing == Yield("L74", failedTask(CHECK_TS_VERSION), "L75")

\* the failure is reported but not thrown: the run goes on
ThrowTsMissing_Continue ==
    /\ pc = "L75"
    /\ pc' = "L90"
    /\ UNCHANGED <<events, calls, lookups, error, CI, timers, dataVars, complyVars>>

ThrowTsMissing == Throw("L75", errorMessage("typescript not found"))

FailedTsOutdated == Yield("L81", failedTask(CHECK_TS_VERSION), "L82")

ThrowTsOutdated == Throw("L82", errorMessage("typescript out of date"))

CompletedTsVersion == Yield("L90", completedTask(CHECK_TS_VERSION, FALSE), "L91")

-----------------------------------------------------------------------------
(* Check 2: installed dependencies *)

RunningDependencies == Yield("L91", runningTask(CHECK_DEPENDENCIES), "L92")

DelayDependencies == delay("L92", "L94")

\* an out-of-date plugin package falls through to the core library
CheckGraphqlsp_MissingOnly ==
    CheckPackage("L94", "@0no-co/graphqlsp", MINIMUM_VERSIONS.lsp, "L96", "L111", "L111")

CheckGraphqlsp ==
    CheckPackage("L94", "@0no-co/graphqlsp", MINIMUM_VERSIONS.lsp, "L96", "L102", "L111")

FailedLspMissing == Yield("L96", failedTask(CHECK_DEPENDENCIES), "L97")

ThrowLspMissing == Throw("L97", errorMessage("@0no-co/graphqlsp not found"))

FailedLspOutdated == Yield("L102", failedTask(CHECK_DEPENDENCIES), "L103")

ThrowLspOutdated == Throw("L103", errorMessage("@0no-co/graphqlsp out of date"))

CheckGqlTada ==
    CheckPackage("L111", "gql.tada", <<"1", ".", "0", ".", "0">>, "L113", "L119", "L130")

\* a Failed event carrying the label of check 1
FailedTadaMissing_WrongLabel == Yield("L113", failedTask(CHECK_TS_VERSION), "L114")

FailedTadaMissing == Yield("L113", failedTask(CHECK_DEPENDENCIES), "L114")

ThrowTadaMissing == Throw("L114", errorMessage("gql.tada not found"))

FailedTadaOutdated == Yield("L119", failedTask(CHECK_DEPENDENCIES), "L120")

ThrowTadaOutdated == Throw("L120", errorMessage("gql.tada out of date"))

\* the Completed event of check 2 is not yielded
CompletedDependencies_Missing ==
    /\ pc = "L130"
    /\ pc' = "L131"
    /\ UNCHANGED <<events, calls, lookups, error, CI, timers, dataVars, complyVars>>

CompletedDependencies == Yield("L130", completedTask(CHECK_DEPENDENCIES, FALSE), "L131")

-----------------------------------------------------------------------------
(* Check 3: tsconfig.json *)

RunningTsconfig == Yield("L131", runningTask(CHECK_TSCONFIG), "L132")

DelayTsconfig == delay("L132", "L136")

\* configResult = await loadConfig() inside try/catch
LoadConfig ==
    /\ pc = "L136"
    /\ calls' = Append(calls, "loadConfig")
    /\ \/ \E e \in Errors :
             /\ thrown' = e
             /\ pc' = "L138"
             /\ UNCHANGED configResult
       \/ \E raw \in RawConfigs :
             /\ configResult' = [loaded |-> TRUE, pluginConfig |-> raw]
             /\ pc' = "L147"
             /\ UNCHANGED thrown
    /\ UNCHANGED <<events, lookups, error, CI, timers, packageJsonContents, deps,
                   pluginConfig, hasSchema, loaderOrigin, complyVars>>

FailedLoadConfig == Yield("L138", failedTask(CHECK_TSCONFIG), "L139")

\* the error of loadConfig is dropped and a user error thrown
ThrowLoadConfig_UserError == Throw("L139", errorMessage("tsconfig.json not found"))

ThrowLoadConfig == Throw("L139", externalError("tsconfig.json not found", thrown))

\* pluginConfig = parseConfig(configResult.pluginConfig) inside try/catch
ParseConfig ==
    /\ pc = "L147"
    /\ calls' = Append(calls, "parseConfig")
    /\ IF configResult.pluginConfig.valid
       THEN /\ pluginConfig' = [parsed |-> TRUE, schema |-> configResult.pluginConfig.schema]
            /\ pc' = "L155"
            /\ UNCHANGED thrown
       ELSE /\ \E e \in Errors : thrown' = e
            /\ pc' = "L149"
            /\ UNCHANGED pluginConfig
    /\ UNCHANGED <<events, lookups, error, CI, timers, packageJsonContents, deps,
                   configResult, hasSchema, loaderOrigin, complyVars>>

\* the cause is not the error caught but any error
ThrowParseConfig_AnyCause ==
    \E e \in Errors : Throw("L149", externalError("plugin configuration invalid", e))

ThrowParseConfig == Throw("L149", externalError("plugin configuration invalid", thrown))

\* the schema option is not checked
CheckSchemaOption_Ignored ==
    /\ pc = "L155"
    /\ pc' = "L163"
    /\ UNCHANGED <<events, calls, lookups, error, CI, timers, dataVars, complyVars>>

\* if (!pluginConfig.schema)
CheckSchemaOption ==
    /\ pc = "L155"
    /\ pc' = IF pluginConfig.schema = "" THEN "L156" ELSE "L163"
    /\ UNCHANGED <<events, calls, lookups, error, CI, timers, dataVars, complyVars>>

\* the Failed event of check 3 is not yielded
FailedNoSchemaOption_Missing ==
    /\ pc = "L156"
    /\ pc' = "L157"
    /\ UNCHANGED <<events, calls, lookups, error, CI, timers, dataVars, complyVars>>

FailedNoSchemaOption == Yield("L156", failedTask(CHECK_TSCONFIG), "L157")

ThrowNoSchemaOption == Throw("L157", errorMessage("no schema option"))

CompletedTsconfig == Yield("L163", completedTask(CHECK_TSCONFIG, FALSE), "L164")

-----------------------------------------------------------------------------
(* Check 4: schema *)

RunningSchema == Yield("L164", runningTask(CHECK_SCHEMA), "L165")

DelaySchema == delay("L165", "L167")

\* const loader = load({ origin: pluginConfig.schema, rootPath: ... });
\* the call is outside any try block
Load ==
    /\ pc = "L167"
    /\ calls' = Append(calls, "load")
    /\ \/ /\ loaderOrigin' = pluginConfig.schema
          /\ pc' = "L174"
          /\ UNCHANGED <<error, thrown>>
       \/ \E e \in Errors :
             /\ thrown' = e
             /\ error' = rawError(e)
             /\ pc' = "error"
             /\ UNCHANGED loaderOrigin
    /\ UNCHANGED <<events, lookups, CI, timers, packageJsonContents, deps,
                   configResult, pluginConfig, hasSchema, complyVars>>

\* hasSchema = !!(await loader.loadIntrospection()) inside try/catch
LoadIntrospection ==
    /\ pc = "L174"
    /\ calls' = Append(calls, "loadIntrospection")
    /\ \/ \E e \in Errors :
             /\ thrown' = e
             /\ pc' = "L176"
             /\ UNCHANGED hasSchema
       \/ \E truthy \in BOOLEAN :
             /\ hasSchema' = truthy
             /\ pc' = "L178"
             /\ UNCHANGED thrown
    /\ UNCHANGED <<events, lookups, error, CI, timers, packageJsonContents, deps,
                   configResult, pluginConfig, loaderOrigin, complyVars>>

ThrowLoadIntrospection == Throw("L176", externalError("Failed to load schema.", thrown))

\* if (!hasSchema)
CheckHasSchema ==
    /\ pc = "L178"
    /\ pc' = IF ~hasSchema THEN "L179" ELSE "L182"
    /\ UNCHANGED <<events, calls, lookups, error, CI, timers, dataVars, complyVars>>

\* a falsy loader result is not thrown: the run goes on to the sentinel
ThrowNoSchema_Swallowed ==
    /\ pc = "L179"
    /\ pc' = "L185"
    /\ UNCHANGED <<events, calls, lookups, error, CI, timers, dataVars, complyVars>>

ThrowNoSchema == Throw("L179", errorMessage("Failed to load schema."))

\* the last Completed event without its final flag
CompletedSchema_NotFinal == Yield("L182", completedTask(CHECK_SCHEMA, FALSE), "L183")

CompletedSchema == Yield("L182", completedTask(CHECK_SCHEMA, TRUE), "L183")

DelayFinal == delay("L183", "L185")

YieldSuccess == Yield("L185", success, "L186")

\* the end of the function body: the generator is done
Return ==
    /\ pc = "L186"
    /\ pc' = "done"
    /\ UNCHANGED <<events, calls, lookups, error, CI, timers, dataVars, complyVars>>

-----------------------------------------------------------------------------

Next ==
    \/ YieldTitle \/ RunningTsVersion \/ DelayTsVersion \/ ReadManifest
    \/ FailedManifest \/ ThrowManifest \/ BuildDeps \/ CheckTypeScript
    \/ FailedTsMissing \/ ThrowTsMissing \/ FailedTsOutdated \/ ThrowTsOutdated
    \/ CompletedTsVersion
    \/ RunningDependencies \/ DelayDependencies \/ CheckGraphqlsp
    \/ FailedLspMissing \/ ThrowLspMissing \/ FailedLspOutdated \/ ThrowLspOutdated
    \/ CheckGqlTada
    \/ FailedTadaMissing \/ ThrowTadaMissing \/ FailedTadaOutdated \/ ThrowTadaOutdated
    \/ CompletedDependencies
    \/ RunningTsconfig \/ DelayTsconfig \/ LoadConfig \/ FailedLoadConfig
    \/ ThrowLoadConfig \/ ParseConfig \/ ThrowParseConfig \/ CheckSchemaOption
    \/ FailedNoSchemaOption \/ ThrowNoSchemaOption \/ CompletedTsconfig
    \/ RunningSchema \/ DelaySchema \/ Load \/ LoadIntrospection
    \/ ThrowLoadIntrospection \/ CheckHasSchema \/ ThrowNoSchema
    \/ CompletedSchema \/ DelayFinal \/ YieldSuccess \/ Return

Spec == Init /\ [][Next]_vars

-----------------------------------------------------------------------------
(* semiverComply on its own: every version string up to MaxLen *)

InitComply ==
    /\ pc = "comply"
    /\ events = <<>>
    /\ calls = <<>>
    /\ lookups = <<>>
    /\ error = NoError
    /\ CI = TRUE
    /\ timers = 0
    /\ packageJsonContents = Unset
    /\ deps = NoDeps
    /\ configResult = NoConfig
    /\ pluginConfig = NoPluginConfig
    /\ hasSchema = FALSE
    /\ loaderOrigin = ""
    /\ thrown = NoCause
    /\ cVersion \in Strings
    /\ cCompare \in {MINIMUM_VERSIONS.typescript, MINIMUM_VERSIONS.lsp}
    /\ cResult = "unset"

CallSemiverComply ==
    /\ pc = "comply"
    /\ cResult = "unset"
    /\ cResult' = IF semiverComply(cVersion, cCompare) THEN "true" ELSE "false"
    /\ UNCHANGED <<runVars, cVersion, cCompare>>

NextComply == CallSemiverComply

SpecComply == InitComply /\ [][NextComply]_vars

-----------------------------------------------------------------------------
(* Vocabulary of the properties *)

Ended == pc \in {"done", "error"}

IsCheckEvent(e) == e.type \in {"Running", "Completed", "Failed"}

\* the events of the checks, without the title and the success sentinel
CheckEvents == SelectSeq(events, IsCheckEvent)

Emitted(e) == \E i \in DOMAIN events : events[i] = e

Count(type, n) ==
    Cardinality({i \in DOMAIN events : events[i].type = type /\ events[i].check = n})

HasCompleted(n) == Count("Completed", n) > 0

HasFailedEvent == \E i \in DOMAIN events : events[i].type = "Failed"

HasFailed == HasFailedEvent \/ error # NoError

Called(op) == \E i \in DOMAIN calls : calls[i] = op

LookedUp(name) == \E i \in DOMAIN lookups : lookups[i] = name

IsPrefix(s, t) == Len(s) <= Len(t) /\ SubSeq(t, 1, Len(s)) = s

\* the four checks in order, each Running then Completed, the last one final
FourChecksPassed ==
    <<runningTask(1), completedTask(1, FALSE),
      runningTask(2), completedTask(2, FALSE),
      runningTask(3), completedTask(3, FALSE),
      runningTask(4), completedTask(4, TRUE)>>

\* the environment satisfied all four checks
AllChecksSatisfied ==
    /\ packageJsonContents.kind = "object"
    /\ \A p \in Packages : deps[p].t = "string"
    /\ semiverComply(deps["typescript"].s, <<"4", ".", "1", ".", "0">>)
    /\ semiverComply(deps["@0no-co/graphqlsp"].s, <<"1", ".", "0", ".", "0">>)
    /\ semiverComply(deps["gql.tada"].s, <<"1", ".", "0", ".", "0">>)
    /\ configResult.loaded
    /\ pluginConfig.parsed
    /\ pluginConfig.schema # ""
    /\ Called("loadIntrospection")
    /\ hasSchema

-----------------------------------------------------------------------------
(* C1 *)

\* C1 as stated: when all four checks are satisfied, the complete sequence of
\* events of the run is exactly Running/Completed for checks 1..4 (the last
\* Completed final) and then one success sentinel, with no other event before,
\* between or after, and no error.
C1_ExactlyChecksThenSuccess ==
    (AllChecksSatisfied /\ pc = "done") =>
        /\ events = FourChecksPassed \o <<success>>
        /\ error = NoError

\* C1 amended: when all four checks are satisfied, the complete sequence of
\* events is one title event, then Running/Completed for checks 1..4 (the last
\* Completed final), then one success sentinel, and no error is raised.
C1_TitleChecksThenSuccess ==
    AllChecksSatisfied =>
        /\ error = NoError
        /\ pc # "error"
        /\ IsPrefix(events, <<title>> \o FourChecksPassed \o <<success>>)
        /\ pc = "done" => events = <<title>> \o FourChecksPassed \o <<success>>

C1_Witness ==
    /\ pc = "done"
    /\ AllChecksSatisfied
    /\ Len(events) = 10
    /\ events[10] = success

-----------------------------------------------------------------------------
(* C2 *)

\* C2: once a check has failed (a Failed event was emitted or an error was
\* raised), no step emits a Running, Completed or success event and no step
\* calls an external operation; the events already emitted stay as they are.
C2_FirstFailureAborts ==
    [][HasFailed =>
          /\ calls' = calls
          /\ IsPrefix(events, events')
          /\ \A i \in DOMAIN events' :
                i > Len(events) => events'[i].type \notin {"Running", "Completed", "Success"}
          /\ error # NoError => (events' = events /\ error' = error /\ pc' = pc)]_vars

C2_Witness ==
    /\ pc = "error"
    /\ error.kind = "UserError"
    /\ HasFailedEvent
    /\ events[Len(events)] = failedTask(CHECK_DEPENDENCIES)
    /\ calls = <<"readFile">>

-----------------------------------------------------------------------------
(* C3 *)

\* C3: in every run that has ended, every check whose Running event was
\* emitted has exactly one terminal event, Completed or Failed.
C3_EveryRunningHasTerminal ==
    Ended =>
        \A n \in Checks :
            Count("Running", n) > 0 => Count("Completed", n) + Count("Failed", n) = 1

-----------------------------------------------------------------------------
(* C4 *)

\* C4: a Running event of check N+1 comes only after Running(N) and
\* Completed(N), and never after Failed(N).
C4_StrictOrder ==
    \A i \in DOMAIN events :
        \A n \in 1..3 :
            events[i] = runningTask(n + 1) =>
                /\ \E j \in 1..(i - 1) : events[j] = runningTask(n)
                /\ \E j \in 1..(i - 1) : events[j] = completedTask(n, FALSE)
                /\ \A j \in 1..(i - 1) : events[j] # failedTask(n)

C4_Witness ==
    /\ Emitted(runningTask(CHECK_SCHEMA))
    /\ Emitted(completedTask(CHECK_TSCONFIG, FALSE))
    /\ pc = "L165"

-----------------------------------------------------------------------------
(* C5 *)

\* checks whose Running event was emitted and that have no terminal event
RunningChecks ==
    {n \in Checks : Count("Running", n) > 0
                    /\ Count("Completed", n) + Count("Failed", n) = 0}

\* C5: at most one check is running; each check emits Running at most once and
\* at most one terminal event, never both Completed and Failed, and no
\* terminal event before its Running event.
C5_OneRunningLifecycleOnce ==
    /\ Cardinality(RunningChecks) <= 1
    /\ \A n \in Checks :
          /\ Count("Running", n) <= 1
          /\ Count("Completed", n) + Count("Failed", n) <= 1
    /\ \A i \in DOMAIN events :
          events[i].type \in {"Completed", "Failed"} =>
              \E j \in 1..(i - 1) : events[j] = runningTask(events[i].check)

C5_Witness ==
    /\ RunningChecks = {CHECK_TSCONFIG}
    /\ HasCompleted(CHECK_TS_VERSION)
    /\ HasCompleted(CHECK_DEPENDENCIES)

-----------------------------------------------------------------------------
(* C6 *)

SuccessCount == Cardinality({i \in DOMAIN events : events[i] = success})

\* C6: a run ends normally after the success sentinel or abnormally with an
\* error, never both; the sentinel is emitted at most once, only as the last
\* event, only after all four checks emitted Completed, never with a Failed
\* event or an error; a run that ended has the sentinel exactly when all four
\* checks emitted Completed.
C6_SuccessOrError ==
    /\ pc = "done" => (error = NoError /\ SuccessCount = 1)
    /\ pc = "error" => (error # NoError /\ SuccessCount = 0)
    /\ error # NoError => pc = "error"
    /\ SuccessCount <= 1
    /\ SuccessCount = 1 =>
          /\ events[Len(events)] = success
          /\ \A n \in Checks : HasCompleted(n)
          /\ ~HasFailedEvent
          /\ error = NoError
    /\ Ended => (SuccessCount = 1 <=> \A n \in Checks : HasCompleted(n))

C6_Witness ==
    /\ pc = "done"
    /\ SuccessCount = 1
    /\ \A n \in Checks : HasCompleted(n)

-----------------------------------------------------------------------------
(* Version compliance stated independently of the regular expression and  *)
(* of semiver: positions of dots and numbers                              *)

RECURSIVE NatOf(_)
NatOf(t) ==
    IF t = <<>> THEN 0
    ELSE 10 * NatOf(SubSeq(t, 1, Len(t) - 1)) + DigitValue(t[Len(t)])

\* pairs of dots with digits only between them, a digit before the first
\* and a digit after the second
DotPairs(v) ==
    {p \in (1..Len(v)) \X (1..Len(v)) :
        /\ p[1] > 1 /\ p[1] + 1 < p[2] /\ p[2] < Len(v)
        /\ v[p[1]] = "." /\ v[p[2]] = "."
        /\ IsDigit(v[p[1] - 1]) /\ IsDigit(v[p[2] + 1])
        /\ \A k \in (p[1] + 1)..(p[2] - 1) : IsDigit(v[k])}

HasTriple(v) == DotPairs(v) # {}

FirstPair(v) == CHOOSE p \in DotPairs(v) : \A q \in DotPairs(v) : p[1] <= q[1]

\* start of the run of digits that ends at position e
RunStart(v, e) ==
    CHOOSE i \in 1..e :
        /\ \A k \in i..e : IsDigit(v[k])
        /\ i = 1 \/ ~IsDigit(v[i - 1])

\* end of the run of digits that starts at position b
RunEnd(v, b) ==
    CHOOSE j \in b..Len(v) :
        /\ \A k \in b..j : IsDigit(v[k])
        /\ j = Len(v) \/ ~IsDigit(v[j + 1])

\* <<major, minor, patch>> of the first dotted triple of digit runs
FirstTriple(v) ==
    LET p == FirstPair(v)
    IN  <<NatOf(SubSeq(v, RunStart(v, p[1] - 1), p[1] - 1)),
          NatOf(SubSeq(v, p[1] + 1, p[2] - 1)),
          NatOf(SubSeq(v, p[2] + 1, RunEnd(v, p[2] + 1)))>>

VersionGeq(x, y) ==
    \/ x[1] > y[1]
    \/ x[1] = y[1] /\ x[2] > y[2]
    \/ x[1] = y[1] /\ x[2] = y[2] /\ x[3] >= y[3]

Complies(v, minimum) ==
    HasTriple(v) /\ VersionGeq(FirstTriple(v), FirstTriple(minimum))

-----------------------------------------------------------------------------
(* C7 *)

ManifestUnreadable == Called("readFile") /\ packageJsonContents.kind = "unset"

TsAbsent ==
    /\ packageJsonContents.kind = "object"
    /\ packageJsonContents.dependencies["typescript"] = Absent
    /\ packageJsonContents.devDependencies["typescript"] = Absent

TsOutOfDate ==
    /\ packageJsonContents.kind = "object"
    /\ deps["typescript"].t = "string"
    /\ ~Complies(deps["typescript"].s, <<"4", ".", "1", ".", "0">>)

\* C7: when the manifest cannot be read or parsed, or has no typescript entry,
\* or has one that does not comply with 4.1.0, the check events are
\* Running(1) then Failed(1), the run ends with a UserError, and check 2 is
\* never reached: no Running(2), no lookup of the other two packages.
C7_Check1Failures ==
    (ManifestUnreadable \/ TsAbsent \/ TsOutOfDate) =>
        /\ IsPrefix(CheckEvents, <<runningTask(1), failedTask(1)>>)
        /\ ~LookedUp("@0no-co/graphqlsp") /\ ~LookedUp("gql.tada")
        /\ pc # "done"
        /\ pc = "error" =>
              /\ CheckEvents = <<runningTask(1), failedTask(1)>>
              /\ error.kind = "UserError"
              /\ ManifestUnreadable => error.message = "package.json not found"
              /\ TsAbsent => error.message = "typescript not found"
              /\ TsOutOfDate => error.message = "typescript out of date"

C7_Witness ==
    /\ pc = "error"
    /\ TsOutOfDate
    /\ deps["@0no-co/graphqlsp"].t = "string"
    /\ error.kind = "UserError"

-----------------------------------------------------------------------------
(* C8 *)

LoadConfigThrew == Called("loadConfig") /\ ~configResult.loaded

\* C8: when checks 1 and 2 pass and loadConfig throws, the check events start
\* Running(1), Completed(1), Running(2), Completed(2), Running(3), there is no
\* Completed(3) and no event of check 4, and the run ends with an
\* ExternalError whose cause is the error loadConfig threw.
C8_LoadConfigThrows ==
    LoadConfigThrew =>
        /\ IsPrefix(<<runningTask(1), completedTask(1, FALSE),
                      runningTask(2), completedTask(2, FALSE),
                      runningTask(3)>>, CheckEvents)
        /\ ~HasCompleted(CHECK_TSCONFIG)
        /\ \A i \in DOMAIN events : events[i].check # CHECK_SCHEMA
        /\ thrown \in Errors
        /\ pc # "done"
        /\ pc = "error" =>
              /\ error.kind = "ExternalError"
              /\ error.cause = thrown

C8_Witness ==
    /\ pc = "error"
    /\ LoadConfigThrew
    /\ error.cause = "E2"

-----------------------------------------------------------------------------
(* C9 *)

LspEntry == deps["@0no-co/graphqlsp"]

TadaEntry == deps["gql.tada"]

OneZeroZero == <<"1", ".", "0", ".", "0">>

LspBad ==
    \/ LspEntry = Absent
    \/ LspEntry.t = "string" /\ ~Complies(LspEntry.s, OneZeroZero)

LspMessages == {"@0no-co/graphqlsp not found", "@0no-co/graphqlsp out of date"}

TadaMessages == {"gql.tada not found", "gql.tada out of date"}

\* C9: in check 2 the plugin package is validated before the core library:
\* when the plugin entry is absent or does not comply, the run raises a
\* UserError about the plugin package whatever the core library entry is and
\* the core library is not looked up; a UserError about the core library is
\* raised only when the plugin entry is present and complies.  In both cases
\* Failed(2) is emitted and Completed(2) is not.
C9_PluginBeforeCore ==
    /\ (HasCompleted(CHECK_TS_VERSION) /\ LspBad) =>
          /\ ~LookedUp("gql.tada")
          /\ ~HasCompleted(CHECK_DEPENDENCIES)
          /\ pc # "done"
          /\ pc = "error" =>
                /\ error.kind = "UserError"
                /\ error.message \in LspMessages
                /\ (error.message = "@0no-co/graphqlsp not found") <=> (LspEntry = Absent)
                /\ Emitted(failedTask(CHECK_DEPENDENCIES))
    /\ error.message \in TadaMessages =>
          /\ error.kind = "UserError"
          /\ LspEntry.t = "string" /\ Complies(LspEntry.s, OneZeroZero)
          /\ \/ TadaEntry = Absent
             \/ TadaEntry.t = "string" /\ ~Complies(TadaEntry.s, OneZeroZero)
          /\ (error.message = "gql.tada not found") <=> (TadaEntry = Absent)
          /\ Emitted(failedTask(CHECK_DEPENDENCIES))
          /\ ~HasCompleted(CHECK_DEPENDENCIES)

C9_Witness ==
    /\ pc = "error"
    /\ error.message = "@0no-co/graphqlsp out of date"
    /\ TadaEntry = Absent
    /\ Emitted(failedTask(CHECK_DEPENDENCIES))

-----------------------------------------------------------------------------
(* C10 *)

\* C10: semiverComply(version, compare) is true exactly when version contains
\* a dotted triple of digit runs and the first one is, as three numbers,
\* greater than or equal to compare; it is false when there is no triple; the
\* bound is inclusive; text around the triple does not change the result.
C10_CompliesIffFirstTripleGeq ==
    cResult # "unset" =>
        /\ cResult \in {"true", "false"}
        /\ (cResult = "true") <=> Complies(cVersion, cCompare)
        /\ ~HasTriple(cVersion) => cResult = "false"
        /\ (HasTriple(cVersion) /\ FirstTriple(cVersion) = FirstTriple(cCompare))
              => cResult = "true"
        /\ \A c \in {"^", "~", "-", "+"} :
              /\ semiverComply(<<c>> \o cVersion, cCompare) = (cResult = "true")
              /\ semiverComply(cVersion \o <<c>>, cCompare) = (cResult = "true")

C10_Witness ==
    /\ cResult = "true"
    /\ cVersion = <<"^", "4", ".", "1", ".", "0">>
    /\ cCompare = <<"4", ".", "1", ".", "0">>

-----------------------------------------------------------------------------
(* The outcome of a run written as a function of what the environment gave *)
(* it: the manifest, and the results of the collaborators                  *)

\* the declared version of a package: the development entry when there is one
EffectiveEntry(p) ==
    IF packageJsonContents.devDependencies[p] # Absent
    THEN packageJsonContents.devDependencies[p]
    ELSE packageJsonContents.dependencies[p]

Verdict(p, minimum) ==
    LET e == EffectiveEntry(p)
    IN  IF e = Absent THEN "missing"
        ELSE IF e.t # "string" THEN "nonstring"
        ELSE IF Complies(e.s, minimum) THEN "ok"
        ELSE "outdated"

Outcome(ev, err, ops) == [ev |-> ev, err |-> err, ops |-> ops]

Passed(n) == SubSeq(FourChecksPassed, 1, 2 * n)

FiveCalls == <<"readFile", "loadConfig", "parseConfig", "load", "loadIntrospection">>

\* check events, error and calls of a run that has ended
ExpectedOutcome ==
    LET ts   == Verdict("typescript", <<"4", ".", "1", ".", "0">>)
        lsp  == Verdict("@0no-co/graphqlsp", OneZeroZero)
        tada == Verdict("gql.tada", OneZeroZero)
        R(n) == runningTask(n)
        F(n) == failedTask(n)
        ops(n) == SubSeq(FiveCalls, 1, n)
    IN  IF packageJsonContents.kind = "unset"
        THEN Outcome(<<R(1), F(1)>>, errorMessage("package.json not found"), ops(1))
        ELSE IF packageJsonContents.kind = "null"
        THEN Outcome(<<R(1)>>, TypeError("cannot read properties of null"), ops(1))
        ELSE IF ts = "missing"
        THEN Outcome(<<R(1), F(1)>>, errorMessage("typescript not found"), ops(1))
        ELSE IF ts = "nonstring"
        THEN Outcome(<<R(1)>>, TypeError("version.match is not a function"), ops(1))
        ELSE IF ts = "outdated"
        THEN Outcome(<<R(1), F(1)>>, errorMessage("typescript out of date"), ops(1))
        ELSE IF lsp = "missing"
        THEN Outcome(Passed(1) \o <<R(2), F(2)>>,
                     errorMessage("@0no-co/graphqlsp not found"), ops(1))
        ELSE IF lsp = "nonstring"
        THEN Outcome(Passed(1) \o <<R(2)>>,
                     TypeError("version.match is not a function"), ops(1))
        ELSE IF lsp = "outdated"
        THEN Outcome(Passed(1) \o <<R(2), F(2)>>,
                     errorMessage("@0no-co/graphqlsp out of date"), ops(1))
        ELSE IF tada = "missing"
        THEN Outcome(Passed(1) \o <<R(2), F(2)>>,
                     errorMessage("gql.tada not found"), ops(1))
        ELSE IF tada = "nonstring"
        THEN Outcome(Passed(1) \o <<R(2)>>,
                     TypeError("version.match is not a function"), ops(1))
        ELSE IF tada = "outdated"
        THEN Outcome(Passed(1) \o <<R(2), F(2)>>,
                     errorMessage("gql.tada out of date"), ops(1))
        ELSE IF ~configResult.loaded
        THEN Outcome(Passed(2) \o <<R(3), F(3)>>,
                     externalError("tsconfig.json not found", thrown), ops(2))
        ELSE IF ~configResult.pluginConfig.valid
        THEN Outcome(Passed(2) \o <<R(3)>>,
                     externalError("plugin configuration invalid", thrown), ops(3))
        ELSE IF configResult.pluginConfig.schema = ""
        THEN Outcome(Passed(2) \o <<R(3), F(3)>>,
                     errorMessage("no schema option"), ops(3))
        ELSE IF loaderOrigin = ""
        THEN Outcome(Passed(3) \o <<R(4)>>, rawError(thrown), ops(4))
        ELSE IF thrown # NoCause
        THEN Outcome(Passed(3) \o <<R(4)>>,
                     externalError("Failed to load schema.", thrown), ops(5))
        ELSE IF ~hasSchema
        THEN Outcome(Passed(3) \o <<R(4)>>,
                     errorMessage("Failed to load schema."), ops(5))
        ELSE Outcome(Passed(4), NoError, ops(5))

-----------------------------------------------------------------------------
(* C11 *)

\* C11: the event sequence and the terminal outcome of a run that has ended
\* are a function of the manifest contents and of the results of loadConfig,
\* parseConfig, load and loadIntrospection alone, so two runs given the same
\* inputs produce the same events and the same outcome.
C11_OutcomeFunctionOfInputs ==
    Ended =>
        /\ CheckEvents = ExpectedOutcome.ev
        /\ events = <<title>> \o ExpectedOutcome.ev
                       \o (IF ExpectedOutcome.err = NoError THEN <<success>> ELSE <<>>)
        /\ error = ExpectedOutcome.err
        /\ (pc = "done") <=> (ExpectedOutcome.err = NoError)

C11_Witness ==
    /\ pc = "error"
    /\ error = externalError("plugin configuration invalid", "E2")
    /\ CheckEvents = Passed(2) \o <<runningTask(CHECK_TSCONFIG)>>

-----------------------------------------------------------------------------
(* C12 *)

RunningCount == Cardinality({i \in DOMAIN events : events[i].type = "Running"})

DelayPoints == {"L46", "L92", "L132", "L165", "L183"}

\* C12: the pacing delay changes nothing but the time: a step of delay()
\* touches neither events, calls, error nor data, and goes on to the same
\* control point with CI set or unset; a run that has ended has, with the flag
\* set (no timer armed) as with it unset (one timer per delay), the events,
\* the calls and the outcome that its inputs alone determine.
C12_DelayDoesNotAffectOutcome ==
    /\ [](Ended =>
            /\ events = <<title>> \o ExpectedOutcome.ev
                           \o (IF ExpectedOutcome.err = NoError THEN <<success>> ELSE <<>>)
            /\ calls = ExpectedOutcome.ops
            /\ error = ExpectedOutcome.err
            /\ timers = IF CI THEN 0 ELSE RunningCount + SuccessCount)
    /\ [][/\ CI' = CI
          /\ pc \in DelayPoints =>
                /\ events' = events /\ calls' = calls /\ error' = error
                /\ lookups' = lookups /\ dataVars' = dataVars
                /\ pc' \notin {"error", "done"}
          /\ pc \notin DelayPoints => timers' = timers]_vars

C12_Witness ==
    /\ pc = "done"
    /\ ~CI
    /\ timers = 5
    /\ calls = FiveCalls

-----------------------------------------------------------------------------
(* C13 *)

\* C13: whenever run() ends abnormally the error raised is a PipelineError,
\* that is a UserError or an ExternalError, whatever the manifest holds and
\* however load, loadConfig, parseConfig and loadIntrospection fail.
C13_OnlyPipelineErrors ==
    pc = "error" => error.kind \in {"UserError", "ExternalError"}

-----------------------------------------------------------------------------
(* C14 *)

\* the check of the last Running event
RunningCheck ==
    LET last == CHOOSE i \in DOMAIN events :
                    /\ events[i].type = "Running"
                    /\ \A k \in DOMAIN events : events[k].type = "Running" => k <= i
    IN  events[last].check

ParseFailure == error.message = "plugin configuration invalid"

FalsyResultFailure == error = errorMessage("Failed to load schema.")

\* C14: at every failure site that raises a PipelineError, other than a
\* configuration-parse failure and a falsy loader result (so: manifest
\* unreadable, a package absent or out of date, loadConfig throwing, no schema
\* option, loadIntrospection throwing), the last event before the error is
\* the Failed event of the running check.
C14_FailedBeforeError ==
    (/\ pc = "error"
     /\ error.kind \in {"UserError", "ExternalError"}
     /\ ~ParseFailure
     /\ ~FalsyResultFailure) =>
        events[Len(events)] = failedTask(RunningCheck)

-----------------------------------------------------------------------------
(* C15 *)

ParseConfigThrew == Called("parseConfig") /\ ~pluginConfig.parsed

LoaderGaveFalsy == Called("loadIntrospection") /\ thrown = NoCause /\ ~hasSchema

SchemaOptionMissing == pluginConfig.parsed /\ pluginConfig.schema = ""

\* C15: when parseConfig throws, the run raises an ExternalError with no
\* Failed(3), the last event being Running(3); when loadIntrospection gives a
\* falsy result, the run raises a UserError without cause and with no
\* Failed(4), the last event being Running(4); when the parsed configuration
\* has no schema option, Failed(3) is emitted and a UserError raised.
C15_SilentAndReportedFailures ==
    /\ ParseConfigThrew =>
          /\ events[Len(events)] = runningTask(CHECK_TSCONFIG)
          /\ ~Emitted(failedTask(CHECK_TSCONFIG))
          /\ pc # "done"
          /\ pc = "error" => (error.kind = "ExternalError" /\ error.cause = thrown)
    /\ LoaderGaveFalsy =>
          /\ events[Len(events)] = runningTask(CHECK_SCHEMA)
          /\ ~Emitted(failedTask(CHECK_SCHEMA))
          /\ pc # "done"
          /\ pc = "error" => (error.kind = "UserError" /\ error.cause = NoCause)
    /\ SchemaOptionMissing =>
          /\ ~HasCompleted(CHECK_TSCONFIG)
          /\ pc # "done"
          /\ pc = "error" =>
                /\ events[Len(events)] = failedTask(CHECK_TSCONFIG)
                /\ error.kind = "UserError"
                /\ error.message = "no schema option"

C15_Witness ==
    /\ pc = "error"
    /\ LoaderGaveFalsy
    /\ error.kind = "UserError"
    /\ Len(events) = 8

-----------------------------------------------------------------------------
(* C16 *)

\* one of loadConfig, parseConfig, load, loadIntrospection threw
CollaboratorThrew == thrown # NoCause

\* C16: a run that ends with an error ends with an ExternalError exactly when
\* a collaborator call threw, and the ExternalError carries the error thrown
\* as its cause; every other failure ends the run with a UserError that
\* carries no cause.
C16_KindBySite ==
    pc = "error" =>
        /\ (error.kind = "ExternalError") <=> CollaboratorThrew
        /\ error.kind = "ExternalError" => error.cause = thrown
        /\ ~CollaboratorThrew => (error.kind = "UserError" /\ error.cause = NoCause)

-----------------------------------------------------------------------------
(* C17 *)

MinimumOf(p) ==
    IF p = "typescript" THEN <<"4", ".", "1", ".", "0">> ELSE OneZeroZero

NotFoundMessage(p) ==
    IF p = "typescript" THEN "typescript not found"
    ELSE IF p = "gql.tada" THEN "gql.tada not found"
    ELSE "@0no-co/graphqlsp not found"

OutOfDateMessage(p) ==
    IF p = "typescript" THEN "typescript out of date"
    ELSE IF p = "gql.tada" THEN "gql.tada out of date"
    ELSE "@0no-co/graphqlsp out of date"

\* the check of package p found it present and compliant
PackagePassed(p) ==
    IF p = "typescript" THEN HasCompleted(CHECK_TS_VERSION)
    ELSE IF p = "gql.tada" THEN HasCompleted(CHECK_DEPENDENCIES)
    ELSE LookedUp("gql.tada")

DeclaredInBoth(p) ==
    /\ packageJsonContents.dependencies[p] # Absent
    /\ packageJsonContents.devDependencies[p] # Absent

DeclaredInNeither(p) ==
    /\ packageJsonContents.dependencies[p] = Absent
    /\ packageJsonContents.devDependencies[p] = Absent

\* C17: the dependency map is the merge of dependencies and devDependencies
\* with the development entry winning: a package declared in both is tested
\* on its devDependencies version, a package is reported absent only when it
\* is in neither mapping, and the map is built once, before the first lookup,
\* and is the same in checks 1 and 2.
C17_DevDependenciesWin ==
    /\ [](\A p \in Packages :
            /\ LookedUp(p) =>
                  \A q \in Packages : deps[q] = EffectiveEntry(q)
            /\ error.message = NotFoundMessage(p) => DeclaredInNeither(p)
            /\ (LookedUp(p) /\ DeclaredInNeither(p)) =>
                  (~PackagePassed(p) /\ (pc = "error" => error.message = NotFoundMessage(p)))
            /\ (DeclaredInBoth(p) /\ packageJsonContents.devDependencies[p].t = "string") =>
                  /\ error.message = OutOfDateMessage(p) =>
                        ~Complies(packageJsonContents.devDependencies[p].s, MinimumOf(p))
                  /\ PackagePassed(p) =>
                        Complies(packageJsonContents.devDependencies[p].s, MinimumOf(p)))
    /\ [][pc # "L67" => deps' = deps]_vars

C17_Witness ==
    /\ pc = "error"
    /\ error.message = "@0no-co/graphqlsp out of date"
    /\ packageJsonContents.dependencies["@0no-co/graphqlsp"] = Str(<<"^", "4", ".", "1", ".", "0">>)
    /\ packageJsonContents.devDependencies["@0no-co/graphqlsp"] = Str(<<"0", ".", "4", ".", "1">>)
    /\ DeclaredInBoth("typescript")

-----------------------------------------------------------------------------
(* C18 *)

\* C18: the external operations are invoked at most once each and in the
\* order manifest read, loadConfig, parseConfig, load, loadIntrospection; the
\* manifest read after Running(1), loadConfig and parseConfig after
\* Completed(1), Completed(2) and Running(3), load and loadIntrospection after
\* Completed(3) and Running(4); the loader is made from the non-empty schema
\* option of the parsed configuration.
C18_CallOrder ==
    /\ IsPrefix(calls, FiveCalls)
    /\ Called("readFile") => Emitted(runningTask(CHECK_TS_VERSION))
    /\ Called("loadConfig") =>
          /\ HasCompleted(CHECK_TS_VERSION) /\ HasCompleted(CHECK_DEPENDENCIES)
          /\ Emitted(runningTask(CHECK_TSCONFIG))
    /\ Called("parseConfig") =>
          /\ configResult.loaded
          /\ Emitted(runningTask(CHECK_TSCONFIG))
    /\ Called("load") =>
          /\ HasCompleted(CHECK_TSCONFIG)
          /\ Emitted(runningTask(CHECK_SCHEMA))
          /\ pluginConfig.parsed
          /\ pluginConfig.schema # ""
          /\ pluginConfig.schema = configResult.pluginConfig.schema
    /\ Called("loadIntrospection") =>
          /\ loaderOrigin = pluginConfig.schema
          /\ loaderOrigin # ""
          /\ Emitted(runningTask(CHECK_SCHEMA))

C18_Witness ==
    /\ calls = FiveCalls
    /\ loaderOrigin = "schema.graphql"
    /\ pc = "L178"

-----------------------------------------------------------------------------
(* C19 *)

\* the consumer keeps requesting the next event and every external call
\* returns or throws: a step that can be taken is eventually taken
FairSpec == Spec /\ WF_vars(Next)

\* C19: every run ends, normally or with an error, after at most ten events
\* and five external calls.
C19_Terminates ==
    /\ <>Ended
    /\ [](Len(events) <= 10 /\ Len(calls) <= 5)

C19_Witness ==
    /\ Ended
    /\ ~CI
    /\ Len(events) = 10
    /\ Len(calls) = 5

====
